---- MODULE Spec2Model ----
(***************************************************************************)
(* The usage reporting server (cmd/ursrv): the report store built on a     *)
(* blob store (blob/blob.go), and the serving process with its TTL cache   *)
(* of tables derived from the daily aggregated reports (serve/serve.go).   *)
(*                                                                         *)
(* Time.  time.Now() is the variable clock, a record of the UTC calendar   *)
(* day as a day number (what Format(time.DateOnly) prints) and the instant *)
(* in minutes.  Day number 0 stands for the zero time.Time.                *)
(***************************************************************************)
EXTENDS Integers, Sequences, FiniteSets, TLC

\* ------------------------------------------------------------------ bounds
MaxDay == 3          \* the last calendar day the clock reaches
MaxTime == 5         \* the last instant (minutes) the clock reaches
MaxFolds == 2        \* the number of aggregates folded one by one

\* ------------------------------------------------------- program constants
USAGE_PREFIX == "UR"
AGGREGATED_PREFIX == "AR"
maxCacheTime == 2                 \* minutes
tickerInterval == maxCacheTime - 1   \* the refresher's period; it may fire at any instant here
blocksToGb == 8 * 1024
HardCodedMin == 50                \* the literal of summary.MarshalJSON

Null == "null"                    \* JSON null

\* A time.Time is [day, min]: its UTC calendar day (a day number, ordered as
\* the YYYY-MM-DD strings are) and its instant in minutes.
ZeroTime == [day |-> 0, min |-> 0]            \* time.Time{}
IsZero(t) == t = ZeroTime
After(t, u) == t.day > u.day \/ (t.day = u.day /\ t.min > u.min)
AddDate(t, days) == [t EXCEPT !.day = @ + days]
Midnight(d) == [day |-> d, min |-> 0]

Uids == {"u1", "u2"}
\* version strings, as <<major, minor, patch>>
Versions == {<<1, 2, 0>>, <<1, 10, 0>>, <<2, 0, 0>>}

\* ------------------------------------------------------------ small helpers
Range(f) == {f[x] : x \in DOMAIN f}

Perms(S) == {p \in [1..Cardinality(S) -> S] : Range(p) = S}

IsPrefix(p, s) == Len(p) <= Len(s) /\ SubSeq(s, 1, Len(p)) = p

\* some enumeration of a finite set
SetToSeq(S) == CHOOSE p \in Perms(S) : TRUE

\* s[key] of a Go map: the zero value when the key is absent
Lookup(m, k, zero) == IF k \in DOMAIN m THEN m[k] ELSE zero

Store(m, k, v) == [x \in (DOMAIN m) \cup {k} |-> IF x = k THEN v ELSE m[x]]

\* ---------------------------------------------------------------- JSON
\* A blob is a sequence of tokens <<name, value>>; a JSON object is the
\* brace token, its members, the closing brace token.  json.Marshal of a
\* struct is never empty; json.Unmarshal overlays the members it finds on
\* the value it is given and leaves the other fields alone.
WellFormed(b) == Len(b) >= 2 /\ b[1][1] = "{" /\ b[Len(b)][1] = "}"

Members(b) == SubSeq(b, 2, Len(b) - 1)

Object(members) == <<<<"{", Null>>>> \o members \o <<<<"}", Null>>>>

\* a map member decodes into the existing map when there is one
MergeMap(old, new) ==
    [k \in (DOMAIN old) \cup (DOMAIN new) |->
        IF k \in DOMAIN new THEN new[k] ELSE old[k]]

RECURSIVE Overlay(_, _)
Overlay(into, members) ==
    IF members = <<>> THEN into
    ELSE LET m == Head(members)
             name == m[1]
             val == m[2]
             next == IF name \notin DOMAIN into THEN into
                     ELSE IF name \in {"versionCount", "features"}
                          THEN [into EXCEPT ![name] = MergeMap(@, val)]
                          ELSE [into EXCEPT ![name] = val]
         IN Overlay(next, Tail(members))

Unmarshal(b, into) ==
    IF WellFormed(b) THEN [err |-> FALSE, val |-> Overlay(into, Members(b))]
    ELSE [err |-> TRUE, val |-> into]

\* ------------------------------------------------------------ blob store
\* The store is a function from the keys present to their blobs.  Every
\* backend call may fail (ok = FALSE): S3.Get fails for a missing object and
\* for a failed download alike.
Get(st, key, ok) ==
    IF ok /\ key \in DOMAIN st THEN [err |-> FALSE, data |-> st[key]]
    ELSE [err |-> TRUE, data |-> <<>>]

Put(st, key, data, ok) == IF ok THEN Store(st, key, data) ELSE st

Matching(st, prefix) == {k \in DOMAIN st : IsPrefix(prefix, k)}

\* Iterate visits the listed objects in the order the listing gives them
\* (order: a sequence of the matching keys) and skips those whose download
\* fails (failed).
Iterate(st, order, failed) ==
    LET keep == SelectSeq(order, LAMBDA k : k \notin failed)
    IN [i \in 1..Len(keep) |-> st[keep[i]]]

\* ------------------------------------------------------------- key scheme
\* t.Format(time.DateOnly): the calendar day of t.  A YYYY-MM-DD string is
\* represented by its day number.
DateOnly(t) == t.day

\* A key is the sequence of the pieces Sprintf joins; an empty uniqueId adds
\* nothing, which makes the key of ("when", "") a prefix of that day's keys.
usageReportKey(when, uniqueId) ==
    <<USAGE_PREFIX, "~", DateOnly(when), "-">>
        \o (IF uniqueId = "" THEN <<>> ELSE <<uniqueId>>)

aggregatedReportKey(when) == <<AGGREGATED_PREFIX, "~", DateOnly(when)>>

\* -------------------------------------------------------- usage reports
\* contract.Report, as far as this core reads it, and its free-form
\* feature fields as one map, features.  (date "" is day number 0)
ZeroReport == [uniqueID |-> "", date |-> 0, urVersion |-> 0, features |-> <<>>]

MarshalReport(rep) ==
    Object(<<<<"uniqueID", rep.uniqueID>>, <<"date", rep.date>>,
             <<"urVersion", rep.urVersion>>, <<"features", rep.features>>>>)

\* (mutant) the report is written without looking for one already stored
PutUsageReportNoCheck(st, rep, received, getOk, putOk) ==
    LET key == usageReportKey(received, rep.uniqueID)
    IN [err |-> IF putOk THEN "" ELSE "put failed",
        store |-> Put(st, key, MarshalReport(rep), putOk)]

PutUsageReport(st, rep, received, getOk, putOk) ==
    LET key == usageReportKey(received, rep.uniqueID)
        got == Get(st, key, getOk)
    IN IF ~got.err /\ Len(got.data) # 0
       THEN [err |-> "already exists", store |-> st]
       ELSE [err |-> IF putOk THEN "" ELSE "put failed",
             store |-> Put(st, key, MarshalReport(rep), putOk)]

\* --------------------------------------------------- aggregated reports
\* report.AggregatedReport, as far as this core reads it.
ZeroPerformance ==
    [totFiles |-> 0, totMib |-> 0, sha256Perf |-> 0, memorySize |-> 0,
     memoryUsageMib |-> 0]

ZeroBlockStats ==
    [pulled |-> 0, renamed |-> 0, reused |-> 0, copyOrigin |-> 0,
     copyOriginShifted |-> 0, copyElsewhere |-> 0]

ZeroAggregated ==
    [date |-> ZeroTime, nodes |-> 0, versionCount |-> <<>>,
     performance |-> ZeroPerformance, blockStats |-> ZeroBlockStats,
     locations |-> <<>>]

MarshalAggregated(rep) ==
    Object(<<<<"date", rep.date>>, <<"nodes", rep.nodes>>,
             <<"versionCount", rep.versionCount>>,
             <<"performance", rep.performance>>,
             <<"blockStats", rep.blockStats>>,
             <<"locations", rep.locations>>>>)

PutAggregatedReport(st, rep, putOk) ==
    Put(st, aggregatedReportKey(rep.date), MarshalAggregated(rep), putOk)

\* The callback decodes every blob into the one variable rep and appends a
\* copy of it; a blob that does not decode is skipped.  The copies share
\* rep's version-count map, which every later decode adds to.
RECURSIVE DecodeInto(_, _, _)
DecodeInto(blobs, rep, res) ==
    IF blobs = <<>> THEN [rep |-> rep, res |-> res]
    ELSE LET u == Unmarshal(Head(blobs), rep)
         IN IF u.err THEN DecodeInto(Tail(blobs), rep, res)
            ELSE DecodeInto(Tail(blobs), u.val, Append(res, u.val))

ListAggregatedReports(st, listOk, order, failed) ==
    IF ~listOk THEN [err |-> TRUE, res |-> <<>>]
    ELSE LET d == DecodeInto(Iterate(st, order, failed), ZeroAggregated, <<>>)
         IN [err |-> FALSE,
             res |-> [i \in 1..Len(d.res) |->
                        [d.res[i] EXCEPT !.versionCount = d.rep.versionCount]]]

\* ListUsageReportsForDate: as ListAggregatedReports, over the keys of one
\* day; the copies in res share rep's features map.
ListUsageReportsForDate(st, when, listOk, order, failed) ==
    IF ~listOk THEN [err |-> TRUE, res |-> <<>>]
    ELSE LET d == DecodeInto(Iterate(st, order, failed), ZeroReport, <<>>)
         IN [err |-> FALSE,
             res |-> [i \in 1..Len(d.res) |->
                        [d.res[i] EXCEPT !.features = d.rep.features]]]

\* (mutant) the lookup asks for today's aggregate
LastAggregatedReportToday(st, clk, getOk) ==
    LET key == aggregatedReportKey(clk)
        got == Get(st, key, getOk)
    IN IF got.err
       THEN [err |-> "no aggregated report found", rep |-> ZeroAggregated]
       ELSE LET u == Unmarshal(got.data, ZeroAggregated)
            IN [err |-> IF u.err THEN "decode" ELSE "", rep |-> u.val]

LastAggregatedReport(st, clk, getOk) ==
    LET date == AddDate(clk, -1)
        key == aggregatedReportKey(date)
        got == Get(st, key, getOk)
    IN IF got.err
       THEN [err |-> "no aggregated report found", rep |-> ZeroAggregated]
       ELSE LET u == Unmarshal(got.data, ZeroAggregated)
            IN [err |-> IF u.err THEN "decode" ELSE "", rep |-> u.val]

\* ------------------------------------------------------------- summary
\* summary: versions (version -> column index, from 0), max (version -> most
\* users on one day), rows (date -> counts by column index).
newSummary == [versions |-> <<>>, max |-> <<>>, rows |-> <<>>]

\* one round of setCount's loop
setCountOne(s, date, version, count) ==
    LET ok == version \in DOMAIN s.versions
        idx == IF ok THEN s.versions[version]
               ELSE Cardinality(DOMAIN s.versions)
        versions1 == IF ok THEN s.versions ELSE Store(s.versions, version, idx)
        max1 == IF Lookup(s.max, version, 0) < count
                THEN Store(s.max, version, count) ELSE s.max
        old == Lookup(s.rows, date, <<>>)
        grown == IF Len(old) <= idx
                 THEN [i \in 1..(idx + 1) |-> IF i <= Len(old) THEN old[i] ELSE 0]
                 ELSE old
        row == [grown EXCEPT ![idx + 1] = count]
    IN [versions |-> versions1, max |-> max1, rows |-> Store(s.rows, date, row)]

\* setCount, ranging over the map in the order given
RECURSIVE setCount(_, _, _, _)
setCount(s, date, versions, order) ==
    IF order = <<>> THEN s
    ELSE setCount(setCountOne(s, date, Head(order), versions[Head(order)]),
                  date, versions, Tail(order))

\* the results of setCount over every order of ranging over the map
setCountAny(s, date, versions) ==
    {setCount(s, date, versions, order) : order \in Perms(DOMAIN versions)}

\* upgrade.CompareVersions: numeric comparison of major, minor, patch
CompareVersions(a, b) ==
    IF a[1] # b[1] THEN a[1] - b[1]
    ELSE IF a[2] # b[2] THEN a[2] - b[2]
    ELSE a[3] - b[3]

\* the table MarshalJSON encodes: the header row, then a row per date; a
\* cell is <<count>>, or <<>> for null
MarshalJSON(s) ==
    LET sorted == SortSeq(SetToSeq(DOMAIN s.versions),
                          LAMBDA a, b : CompareVersions(a, b) < 0)
        versions == SelectSeq(sorted,
                              LAMBDA v : Lookup(s.max, v, 0) > HardCodedMin)
        headerRow == <<"Day">> \o versions
        dates == SortSeq(SetToSeq(DOMAIN s.rows), LAMBDA a, b : a < b)
        cell(date, ver) ==
            LET idx == s.versions[ver]
            IN IF Len(s.rows[date]) > idx /\ s.rows[date][idx + 1] > 0
               THEN <<s.rows[date][idx + 1]>> ELSE <<>>
        dataRow(date) ==
            <<date>> \o [i \in 1..Len(versions) |-> cell(date, versions[i])]
    IN <<headerRow>> \o [i \in 1..Len(dates) |-> dataRow(dates[i])]

\* filter removes the versions that never reach min from the index
filter(s, min) ==
    LET gone == {ver \in DOMAIN s.versions : Lookup(s.max, ver, 0) < min}
    IN [s EXCEPT !.versions = [v \in (DOMAIN @) \ gone |-> @[v]],
                 !.max = [v \in (DOMAIN @) \ gone |-> @[v]]]

\* ---------------------------------------- performance and block stats
newBlockStats ==
    <<<<"Day", "Number of Reports", "Transferred (GiB)",
        "Saved by renaming files (GiB)", "Saved by resuming transfer (GiB)",
        "Saved by reusing data from old file (GiB)",
        "Saved by reusing shifted data from old file (GiB)",
        "Saved by reusing data from other files (GiB)">>>>

newPerformance ==
    <<<<"Day", "TotFiles", "TotMiB", "SHA256Perf", "MemorySize",
        "MemoryUsageMiB">>>>

\* report.BlockStats.Valid: no field is negative
Valid(b) == \A f \in DOMAIN b : b[f] >= 0

\* (mutant) no aggregate is dropped
parseBlockStatsAll(date, reports, blockStats) ==
    <<date, reports,
      blockStats.pulled \div blocksToGb,
      blockStats.renamed \div blocksToGb,
      blockStats.reused \div blocksToGb,
      blockStats.copyOrigin \div blocksToGb,
      blockStats.copyOriginShifted \div blocksToGb,
      blockStats.copyElsewhere \div blocksToGb>>

\* <<>> stands for the nil row.  Block counts are multiples of blocksToGb
\* here, so the division is exact.
parseBlockStats(date, reports, blockStats) ==
    IF reports <= 0 \/ ~Valid(blockStats) THEN <<>>
    ELSE <<date, reports,
           blockStats.pulled \div blocksToGb,
           blockStats.renamed \div blocksToGb,
           blockStats.reused \div blocksToGb,
           blockStats.copyOrigin \div blocksToGb,
           blockStats.copyOriginShifted \div blocksToGb,
           blockStats.copyElsewhere \div blocksToGb>>

\* sha256Perf is held in hundredths; float64(int(x*10))/10 cuts it to tenths
performanceRow(date, p) ==
    <<date, p.totFiles, p.totMib, p.sha256Perf \div 10, p.memorySize,
      p.memoryUsageMib>>

\* ------------------------------------------------------------ the cache
\* The snapshot: cachedLatestReport, cachedSummary, cachedPerformance,
\* cachedBlockstats, cacheTime, as one record.
NewCache ==
    [cachedLatestReport |-> ZeroAggregated, cachedSummary |-> newSummary,
     cachedPerformance |-> newPerformance, cachedBlockstats |-> newBlockStats,
     cacheTime |-> ZeroTime]

\* the snapshots cacheGraphData can leave, over setCount's map orders
RECURSIVE cacheGraphData(_, _)
cacheGraphData(c, reports) ==
    IF reports = <<>> THEN {c}
    ELSE LET rep == Head(reports)
             date == DateOnly(rep.date)
             blockStats == parseBlockStats(date, rep.nodes, rep.blockStats)
         IN UNION {
              cacheGraphData(
                [c EXCEPT
                   !.cachedSummary = s1,
                   !.cachedBlockstats =
                       IF blockStats # <<>> THEN Append(@, blockStats) ELSE @,
                   !.cachedPerformance =
                       Append(@, performanceRow(date, rep.performance))],
                Tail(reports))
              : s1 \in setCountAny(c.cachedSummary, date, rep.versionCount)}

\* the listings ListAggregatedReports can return: the listing fails, or it
\* gives the aggregate keys in some order, some downloads failing
Listings(st) ==
    LET keys == Matching(st, <<AGGREGATED_PREFIX>>)
    IN {ListAggregatedReports(st, FALSE, <<>>, {})}
       \cup {ListAggregatedReports(st, TRUE, order, failed) :
               order \in Perms(keys), failed \in SUBSET keys}

\* the end of refreshCacheLocked: fold reportsToCache if there are any, and
\* stamp the time
foldAndStamp(c1, reportsToCache, clk) ==
    LET done(c2) == [err |-> "", cache |-> [c2 EXCEPT !.cacheTime = clk]]
    IN IF Len(reportsToCache) > 0
       THEN {done(c2) : c2 \in cacheGraphData(c1, reportsToCache)}
       ELSE {done(c1)}

\* (mutant) the cached latest is assigned before the lookup's error is looked at
refreshAssignFirst(c, st, clk, last) ==
    LET rep == last.rep
        c1 == [c EXCEPT !.cachedLatestReport = rep]
    IN IF last.err # "" THEN {[err |-> last.err, cache |-> c1]}
       ELSE foldAndStamp(c1, <<>>, clk)

\* refreshCacheLocked on snapshot c at time clk, the lookup of the latest
\* aggregate having returned last: the set of [err, cache] it can end with
refreshAfterLookup(c, st, clk, last) ==
    IF last.err # "" THEN {[err |-> last.err, cache |-> c]}
    ELSE LET rep == last.rep
             c1 == [c EXCEPT !.cachedLatestReport = rep]
         IN IF IsZero(c1.cachedLatestReport.date)
            THEN UNION {IF l.err THEN {[err |-> "list failed", cache |-> c1]}
                        ELSE foldAndStamp(c1, l.res, clk) : l \in Listings(st)}
            ELSE IF After(rep.date, c1.cachedLatestReport.date)
                 THEN foldAndStamp(c1, <<rep>>, clk)
                 ELSE foldAndStamp(c1, <<>>, clk)

\* refreshCacheLocked, the backend's Get succeeding (getOk) or failing:
\* the set of [err, cache, getOk] it can end with
refreshCacheLocked(c, st, clk) ==
    UNION {{[err |-> o.err, cache |-> o.cache, getOk |-> getOk] :
              o \in refreshAfterLookup(c, st, clk,
                                       LastAggregatedReport(st, clk, getOk))}
           : getOk \in BOOLEAN}

\* (mutant) the comparison with maxCacheTime is not strict
IsStaleAtLimit(c, clk) ==
    IsZero(c.cacheTime) \/ clk.min - c.cacheTime.min >= maxCacheTime

\* time.Since(s.cacheTime) > maxCacheTime; since the zero time it is the
\* largest Duration
IsStale(c, clk) ==
    IsZero(c.cacheTime) \/ clk.min - c.cacheTime.min > maxCacheTime

\* ===================================================== the state machine
VARIABLES
    store,     \* the blob store: key -> blob, for the keys present
    clock,     \* time.Now()
    cache,     \* the server's snapshot (the fields cacheMut guards)
    resp,      \* what the last step answered: [op, req, code, refresh, body]
    cacheMut,  \* the holder of s.cacheMut, "" when it is free
    threads    \* where each goroutine is: [at, op, rep]

vars == <<store, clock, cache, resp, cacheMut, threads>>

\* the goroutines: cacheRefresher and two requests being handled
Procs == {"refresher", "h1", "h2"}

Idle == [at |-> "idle", op |-> "", rep |-> <<>>]

NoReq == [uid |-> "", getOk |-> TRUE, putOk |-> TRUE, min |-> 0]

Answer(op, req, code, refresh, body) ==
    [op |-> op, req |-> req, code |-> code, refresh |-> refresh, body |-> body]

Init ==
    /\ store = <<>>
    /\ clock = [day |-> 2, min |-> 0]
    /\ cache = NewCache
    /\ resp = Answer("init", NoReq, 0, "none", <<>>)
    /\ cacheMut = ""
    /\ threads = [p \in Procs |-> Idle]

\* ------------------------------------------------------------- the clock
Tick ==
    /\ clock.min < MaxTime
    /\ clock' = [clock EXCEPT !.min = @ + 1]
    /\ resp' = Answer("tick", NoReq, 0, "none", <<>>)
    /\ UNCHANGED <<store, cache, cacheMut, threads>>

NextDay ==
    /\ clock.min < MaxTime
    /\ clock.day < MaxDay
    /\ clock' = [day |-> clock.day + 1, min |-> clock.min + 1]
    /\ resp' = Answer("tick", NoReq, 0, "none", <<>>)
    /\ UNCHANGED <<store, cache, cacheMut, threads>>

\* ------------------------------------------------ the aggregate producer
\* The aggregates the external aggregation step produces for a day: one of
\* a populated day, one of a day without nodes, one with a negative block
\* statistic.
Populated(d) ==
    [date |-> Midnight(d), nodes |-> 2,
     versionCount |-> (<<1, 2, 0>> :> 10) @@ (<<1, 10, 0>> :> 100),
     performance |-> [totFiles |-> 7, totMib |-> 3, sha256Perf |-> 1234,
                      memorySize |-> 8, memoryUsageMib |-> 1],
     blockStats |-> [pulled |-> 2 * blocksToGb, renamed |-> blocksToGb,
                     reused |-> 0, copyOrigin |-> 0, copyOriginShifted |-> 0,
                     copyElsewhere |-> blocksToGb],
     locations |-> <<"SE">>]

Unpopulated(d) ==
    [Populated(d) EXCEPT !.nodes = 0, !.versionCount = (<<2, 0, 0>> :> 60),
                         !.locations = <<>>]

Produced(d) == {Populated(d), Unpopulated(d)}

Produce(rep, putOk) ==
    /\ store' = PutAggregatedReport(store, rep, putOk)
    /\ resp' = Answer("produce", [NoReq EXCEPT !.putOk = putOk], 0, "none", <<>>)
    /\ UNCHANGED <<clock, cache, cacheMut, threads>>

\* --------------------------------------------------------------- ingestion
\* The request bodies: a report with or without a date member of its own,
\* or bytes that are no JSON.
FeatureSets == {("relays" :> 1), ("folders" :> 2)}

Payload(uid, dates, features) ==
    Object(<<<<"uniqueID", uid>>, <<"urVersion", 3>>, <<"features", features>>>>
           \o [i \in 1..Len(dates) |-> <<"date", dates[i]>>])

Garbage == <<<<"!", Null>>>>

\* newDataHandler: bs the body, valid what rep.Validate() finds
newDataHandler(bs, valid, getOk, putOk) ==
    LET received == clock
        rep0 == [ZeroReport EXCEPT !.date = DateOnly(received)]
        u == Unmarshal(bs, rep0)
        rep == u.val
        req == [NoReq EXCEPT !.uid = rep.uniqueID, !.getOk = getOk,
                             !.putOk = putOk]
        put == PutUsageReport(store, rep, received, getOk, putOk)
    IN IF u.err
       THEN /\ resp' = Answer("newdata", req, 500, "none", "JSON Decode Error")
            /\ UNCHANGED store
       ELSE IF ~valid
       THEN /\ resp' = Answer("newdata", req, 500, "none", "Validation Error")
            /\ UNCHANGED store
       ELSE /\ store' = put.store
            /\ resp' = IF put.err = "already exists"
                       THEN Answer("newdata", req, 200, "none", "duplicate")
                       ELSE IF put.err # ""
                       THEN Answer("newdata", req, 500, "none", "Store Error")
                       ELSE Answer("newdata", req, 200, "none", "accepted")

NewData(bs, valid, getOk, putOk) ==
    /\ newDataHandler(bs, valid, getOk, putOk)
    /\ UNCHANGED <<clock, cache, cacheMut, threads>>

\* a caller lists the usage reports of the day of when (the aggregation step)
ListUsage(when, listOk, order, failed) ==
    /\ resp' = Answer("list", [NoReq EXCEPT !.getOk = (listOk /\ failed = {})],
                      0, "none",
                      [when |-> when,
                       out |-> ListUsageReportsForDate(store, when, listOk,
                                                       order, failed)])
    /\ UNCHANGED <<store, clock, cache, cacheMut, threads>>

\* ------------------------------------------------- the background refresher
\* one round of cacheRefresher's loop: lock, refresh, log the error, unlock
cacheRefresher ==
    /\ \E out \in refreshCacheLocked(cache, store, clock) :
         /\ cache' = out.cache
         /\ resp' = Answer("refresher", [NoReq EXCEPT !.getOk = out.getOk], 0,
                           IF out.err = "" THEN "ok" ELSE "failed", out.err)
    /\ UNCHANGED <<store, clock, cacheMut, threads>>

\* ---------------------------------------------------------- the read side
\* what each read handler writes of snapshot c
Body(op, c) ==
    CASE op = "root" -> c.cachedLatestReport
      [] op = "locations" -> c.cachedLatestReport.locations
      [] op = "summary" -> MarshalJSON(c.cachedSummary)
      [] op = "performance" -> c.cachedPerformance
      [] op = "blockstats" -> c.cachedBlockstats

\* what each read handler does to snapshot c before it writes:
\* summaryHandler filters the cached summary
Touched(op, req, c) ==
    IF op = "summary" THEN [c EXCEPT !.cachedSummary = filter(@, req.min)]
    ELSE c

\* What the read handlers share: lock; when the snapshot is stale, refresh,
\* and answer 500 if that fails; else write the body.
Serve(op, req) ==
    /\ IF IsStale(cache, clock)
       THEN \E out \in refreshCacheLocked(cache, store, clock) :
              LET req1 == [req EXCEPT !.getOk = out.getOk]
              IN IF out.err # ""
                 THEN /\ cache' = out.cache
                      /\ resp' = Answer(op, req1, 500, "failed", "Template Error")
                 ELSE /\ cache' = Touched(op, req, out.cache)
                      /\ resp' = Answer(op, req1, 200, "ok",
                                        Body(op, Touched(op, req, out.cache)))
       ELSE /\ cache' = Touched(op, req, cache)
            /\ resp' = Answer(op, req, 200, "none",
                              Body(op, Touched(op, req, cache)))
    /\ UNCHANGED <<store, clock, cacheMut, threads>>

rootHandler(found) ==
    IF found THEN Serve("root", NoReq)
    ELSE /\ resp' = Answer("root", NoReq, 404, "none", "Not found")
         /\ UNCHANGED <<store, clock, cache, cacheMut, threads>>

locationsHandler == Serve("locations", NoReq)

summaryHandler(min) == Serve("summary", [NoReq EXCEPT !.min = min])

performanceHandler == Serve("performance", NoReq)

blockStatsHandler == Serve("blockstats", NoReq)

\* the thresholds a caller asks for (?min=)
Thresholds == {0, 50, 200}

\* ------------------------------------------------------ the serving process
\* The cache side: the clock, the aggregate producer, the background
\* refresher and the read handlers.
Next ==
    \/ Tick
    \/ NextDay
    \/ \E d \in {clock.day - 1, clock.day} : \E rep \in Produced(d) :
         \E putOk \in BOOLEAN : Produce(rep, putOk)
    \/ cacheRefresher
    \/ \E found \in BOOLEAN : rootHandler(found)
    \/ locationsHandler
    \/ \E min \in Thresholds : summaryHandler(min)
    \/ performanceHandler
    \/ blockStatsHandler

Spec == Init /\ [][Next]_vars

\* ------------------------------------------------------------ ingestion
\* The ingestion side: the calendar and newDataHandler.
NextIngest ==
    \/ NextDay
    \/ \E uid \in Uids : \E dates \in {<<>>, <<1>>} :
         \E valid, getOk, putOk \in BOOLEAN :
           NewData(Payload(uid, dates, ("relays" :> 1)), valid, getOk, putOk)
    \/ \E getOk, putOk \in BOOLEAN : NewData(Garbage, TRUE, getOk, putOk)

SpecIngest == Init /\ [][NextIngest]_vars

\* ---------------------------------------------------- ingestion and listing
\* Reports come in, the backend answering, and a caller lists a day's
\* reports: the listing yields the keys in any order and any of the
\* downloads may fail.
NextList ==
    \/ NextDay
    \/ \E uid \in Uids : \E features \in FeatureSets :
         NewData(Payload(uid, <<>>, features), TRUE, TRUE, TRUE)
    \/ \E when \in {clock, AddDate(clock, -1)} : \E listOk \in BOOLEAN :
         LET keys == Matching(store, usageReportKey(when, ""))
         IN \E order \in Perms(keys) : \E failed \in SUBSET keys :
              ListUsage(when, listOk, order, failed)

SpecList == Init /\ [][NextList]_vars

\* ------------------------------------------------------- the fold, driven
\* The tables under the folds refreshCacheLocked is written to make: a day
\* passes, the aggregate of the day after the latest one arrives in the
\* store and is folded as by serve.go:163-170; summaryHandler reads in
\* between, before the snapshot is stale.
VersionCounts ==
    UNION {[S -> {10, 100}] : S \in {T \in SUBSET Versions : Cardinality(T) <= 2}}

NegativeStats(d) == [Populated(d) EXCEPT !.blockStats.renamed = -blocksToGb]

Arriving(d) ==
    {[Populated(d) EXCEPT !.versionCount = m] : m \in VersionCounts}
        \cup {Unpopulated(d), NegativeStats(d)}

Fold(rep) ==
    /\ clock' = [day |-> rep.date.day + 1, min |-> clock.min + 1]
    /\ store' = PutAggregatedReport(store, rep, TRUE)
    /\ \E out \in foldAndStamp([cache EXCEPT !.cachedLatestReport = rep],
                               <<rep>>, clock') :
         cache' = out.cache
    /\ resp' = Answer("fold", NoReq, 0, "ok", <<>>)
    /\ UNCHANGED <<cacheMut, threads>>

NextFold ==
    \/ \E rep \in Arriving(cache.cachedLatestReport.date.day + 1) :
         /\ rep.date.day <= MaxFolds
         /\ Fold(rep)
    \/ \E min \in Thresholds : summaryHandler(min)

SpecFold == Init /\ [][NextFold]_vars

\* The same folds over the three kinds of day (populated, without nodes,
\* with a negative block statistic), read through the table handlers.
NextStats ==
    \/ \E rep \in Produced(cache.cachedLatestReport.date.day + 1)
                    \cup {NegativeStats(cache.cachedLatestReport.date.day + 1)} :
         /\ rep.date.day <= MaxFolds
         /\ Fold(rep)
    \/ blockStatsHandler
    \/ performanceHandler
    \/ \E min \in Thresholds : summaryHandler(min)

SpecStats == Init /\ [][NextStats]_vars

\* ---------------------------------------------------- the rebuild, driven
\* The full rebuild refreshCacheLocked is written to make on a Cold cache
\* (serve.go:157-170): a server with a new cache lists the stored
\* aggregates and folds them in the order of the listing.
Rebuild ==
    /\ \E l \in Listings(store) :
         \E out \in (IF l.err THEN {[err |-> "list failed", cache |-> NewCache]}
                     ELSE foldAndStamp(NewCache, l.res, clock)) :
           /\ cache' = out.cache
           /\ resp' = Answer("rebuild", NoReq, 0,
                             IF out.err = "" THEN "ok" ELSE "failed", out.err)
    /\ UNCHANGED <<store, clock, cacheMut, threads>>

NextRebuild ==
    \/ \E d \in 1..MaxFolds : \E rep \in Produced(d) : Produce(rep, TRUE)
    \/ Rebuild

SpecRebuild == Init /\ [][NextRebuild]_vars

\* -------------------------------------------------- the goroutines' steps
\* The refresher and the read handlers, statement by statement: each locks
\* cacheMut, runs refreshCacheLocked (the refresher always, a handler when
\* the snapshot is stale), a handler then writes its answer, and unlocks.
\* at is where the goroutine is: idle, lock (calling Lock), check, lookup,
\* assign, fold, stamp, write, unlock.
Readers == Procs \ {"refresher"}

LockOps == {"locations", "performance"}

Goto(p, at) == [threads EXCEPT ![p].at = at]

\* the ticker fires, or a request arrives
Arrive(p, op) ==
    /\ threads[p].at = "idle"
    /\ threads' = [threads EXCEPT ![p] = [at |-> "lock", op |-> op, rep |-> <<>>]]
    /\ UNCHANGED <<store, clock, cache, resp, cacheMut>>

\* (mutant) Lock returns at once, whoever holds the mutex
LockNoWait(p) ==
    /\ threads[p].at = "lock"
    /\ cacheMut' = p
    /\ threads' = Goto(p, IF p = "refresher" THEN "lookup" ELSE "check")
    /\ UNCHANGED <<store, clock, cache, resp>>

\* s.cacheMut.Lock() returns when the mutex is free
Lock(p) ==
    /\ threads[p].at = "lock"
    /\ cacheMut = ""
    /\ cacheMut' = p
    /\ threads' = Goto(p, IF p = "refresher" THEN "lookup" ELSE "check")
    /\ UNCHANGED <<store, clock, cache, resp>>

\* if time.Since(s.cacheTime) > maxCacheTime
Check(p) ==
    /\ threads[p].at = "check"
    /\ threads' = Goto(p, IF IsStale(cache, clock) THEN "lookup" ELSE "write")
    /\ UNCHANGED <<store, clock, cache, resp, cacheMut>>

\* (mutant) the error ends the goroutine where it is, the mutex held
FailedStops(p, err) ==
    /\ threads' = Goto(p, "stopped")
    /\ resp' = IF p = "refresher"
               THEN Answer("refresher", NoReq, 0, "failed", err)
               ELSE Answer(threads[p].op, NoReq, 500, "failed", "Template Error")

\* refreshCacheLocked has returned err: the refresher logs it, a handler
\* answers 500
Failed(p, err) ==
    /\ threads' = Goto(p, "unlock")
    /\ resp' = IF p = "refresher"
               THEN Answer("refresher", NoReq, 0, "failed", err)
               ELSE Answer(threads[p].op, NoReq, 500, "failed", "Template Error")

\* rep, err := s.store.LastAggregatedReport()
LookupLatest(p, getOk) ==
    /\ threads[p].at = "lookup"
    /\ LET last == LastAggregatedReport(store, clock, getOk)
       IN IF last.err # "" THEN Failed(p, last.err)
          ELSE /\ threads' = [threads EXCEPT ![p].at = "assign",
                                             ![p].rep = last.rep]
               /\ UNCHANGED resp
    /\ UNCHANGED <<store, clock, cache, cacheMut>>

\* s.cachedLatestReport = rep
Assign(p) ==
    /\ threads[p].at = "assign"
    /\ cache' = [cache EXCEPT !.cachedLatestReport = threads[p].rep]
    /\ threads' = Goto(p, "fold")
    /\ UNCHANGED <<store, clock, resp, cacheMut>>

\* what to fold, and cacheGraphData
FoldStep(p) ==
    /\ threads[p].at = "fold"
    /\ LET rep == threads[p].rep
       IN IF IsZero(cache.cachedLatestReport.date)
          THEN \E l \in Listings(store) :
                 IF l.err THEN Failed(p, "list failed") /\ UNCHANGED cache
                 ELSE /\ cache' \in cacheGraphData(cache, l.res)
                      /\ threads' = Goto(p, "stamp")
                      /\ UNCHANGED resp
          ELSE /\ IF After(rep.date, cache.cachedLatestReport.date)
                  THEN cache' \in cacheGraphData(cache, <<rep>>)
                  ELSE UNCHANGED cache
               /\ threads' = Goto(p, "stamp")
               /\ UNCHANGED resp
    /\ UNCHANGED <<store, clock, cacheMut>>

\* s.cacheTime = time.Now(); return nil
Stamp(p) ==
    /\ threads[p].at = "stamp"
    /\ cache' = [cache EXCEPT !.cacheTime = clock]
    /\ threads' = Goto(p, IF p = "refresher" THEN "unlock" ELSE "write")
    /\ resp' = IF p = "refresher" THEN Answer("refresher", NoReq, 0, "ok", "")
               ELSE resp
    /\ UNCHANGED <<store, clock, cacheMut>>

\* the handler marshals its part of the snapshot and writes it
Write(p) ==
    /\ threads[p].at = "write"
    /\ resp' = Answer(threads[p].op, NoReq, 200, "none", Body(threads[p].op, cache))
    /\ threads' = Goto(p, "unlock")
    /\ UNCHANGED <<store, clock, cache, cacheMut>>

\* s.cacheMut.Unlock()
Unlock(p) ==
    /\ threads[p].at = "unlock"
    /\ cacheMut' = ""
    /\ threads' = [threads EXCEPT ![p] = Idle]
    /\ UNCHANGED <<store, clock, cache, resp>>

NextLock ==
    \/ Produce(Populated(clock.day - 1), TRUE)
    \/ Arrive("refresher", "refresher")
    \/ \E p \in Readers : \E op \in LockOps : Arrive(p, op)
    \/ \E p \in Procs : Lock(p)
    \/ \E p \in Procs : Check(p)
    \/ \E p \in Procs : \E getOk \in BOOLEAN : LookupLatest(p, getOk)
    \/ \E p \in Procs : Assign(p)
    \/ \E p \in Procs : FoldStep(p)
    \/ \E p \in Procs : Stamp(p)
    \/ \E p \in Procs : Write(p)
    \/ \E p \in Procs : Unlock(p)

SpecLock == Init /\ [][NextLock]_vars

\* The same steps with time passing, and the scheduling the runtime gives:
\* the ticker fires again and again, a goroutine that can take its next
\* statement takes it, and a goroutine calling Lock gets the mutex in the
\* end if it is free again and again (sync.Mutex hands it to a waiter that
\* would starve).  Requests need not arrive and aggregates need not be
\* produced.
NextLive ==
    \/ NextLock
    \/ Tick

Running(p) ==
    \/ Check(p)
    \/ \E getOk \in BOOLEAN : LookupLatest(p, getOk)
    \/ Assign(p)
    \/ FoldStep(p)
    \/ Stamp(p)
    \/ Write(p)
    \/ Unlock(p)

Fairness ==
    /\ WF_vars(Arrive("refresher", "refresher"))
    /\ \A p \in Procs : SF_vars(Lock(p))
    /\ \A p \in Procs : WF_vars(Running(p))

SpecLive == Init /\ [][NextLive]_vars /\ Fairness

\* ------------------------------------------- concurrent PutUsageReport calls
\* Two requests handled at once (net/http runs each handler in a goroutine
\* of its own; PutUsageReport takes no lock): each call is its existence
\* check (blob.go:65-67) and then its write (blob.go:69-73), and the steps
\* of the two calls interleave.  at is where the call is: get, put, and
\* then how it returned: accepted, duplicate, failed.
Returned == {"accepted", "duplicate", "failed"}

\* newDataHandler has decoded and validated rep and calls PutUsageReport
PutArrive(p, uid, features) ==
    /\ threads[p].at = "idle"
    /\ threads' = [threads EXCEPT ![p] =
                     [at |-> "get", op |-> "newdata",
                      rep |-> [uniqueID |-> uid, date |-> DateOnly(clock),
                               urVersion |-> 3, features |-> features]]]
    /\ UNCHANGED <<store, clock, cache, resp, cacheMut>>

\* if data, err := m.Get(key); err == nil && len(data) != 0
ExistenceCheck(p, getOk) ==
    /\ threads[p].at = "get"
    /\ LET key == usageReportKey(clock, threads[p].rep.uniqueID)
           got == Get(store, key, getOk)
       IN threads' = Goto(p, IF ~got.err /\ Len(got.data) # 0
                             THEN "duplicate" ELSE "put")
    /\ UNCHANGED <<store, clock, cache, resp, cacheMut>>

\* (mutant) the write does not replace a blob already under the key
PutBlobIfAbsent(p, putOk) ==
    /\ threads[p].at = "put"
    /\ LET key == usageReportKey(clock, threads[p].rep.uniqueID)
       IN /\ store' = IF key \in DOMAIN store THEN store
                      ELSE Put(store, key, MarshalReport(threads[p].rep), putOk)
          /\ resp' = Answer("put", [NoReq EXCEPT !.uid = threads[p].rep.uniqueID,
                                                 !.putOk = putOk],
                            0, "none", p)
    /\ threads' = Goto(p, IF putOk THEN "accepted" ELSE "failed")
    /\ UNCHANGED <<clock, cache, cacheMut>>

\* bs, err := json.Marshal(rep); return m.Put(key, bs)
PutBlob(p, putOk) ==
    /\ threads[p].at = "put"
    /\ LET key == usageReportKey(clock, threads[p].rep.uniqueID)
       IN /\ store' = Put(store, key, MarshalReport(threads[p].rep), putOk)
          /\ resp' = Answer("put", [NoReq EXCEPT !.uid = threads[p].rep.uniqueID,
                                                 !.putOk = putOk],
                            0, "none", p)
    /\ threads' = Goto(p, IF putOk THEN "accepted" ELSE "failed")
    /\ UNCHANGED <<clock, cache, cacheMut>>

\* the handler returns
Return(p) ==
    /\ threads[p].at \in Returned
    /\ threads' = [threads EXCEPT ![p] = Idle]
    /\ UNCHANGED <<store, clock, cache, resp, cacheMut>>

NextPut ==
    \/ \E p \in Readers : \E uid \in Uids : \E features \in FeatureSets :
         PutArrive(p, uid, features)
    \/ \E p \in Readers : \E getOk \in BOOLEAN : ExistenceCheck(p, getOk)
    \/ \E p \in Readers : \E putOk \in BOOLEAN : PutBlob(p, putOk)
    \/ \E p \in Readers : Return(p)

SpecPut == Init /\ [][NextPut]_vars

\* ================================================================ claims
ReadOps == {"root", "locations", "summary", "performance", "blockstats"}

Yesterday == AddDate(clock, -1)

AggregateKeys(st) == Matching(st, <<AGGREGATED_PREFIX, "~">>)

Decoded(st, key) == Unmarshal(st[key], ZeroAggregated).val

DataRows(table) == Len(table) - 1

\* the three tables as the read handlers serialize them
Tables(c) == <<MarshalJSON(c.cachedSummary), c.cachedPerformance, c.cachedBlockstats>>

\* ------------------------------------------------------------------- C1
\* C1: a PutUsageReport call that finds the backend available stores the
\* report under its (day, uniqueID) key when the key holds nothing, touching
\* no other key; when the key holds a report it answers "already exists"
\* (metric label duplicate) and changes nothing.  So the second of two such
\* calls for one (day, uniqueID) is the duplicate and the first record stays.
C1_SecondPutIsDuplicate ==
    [][(/\ resp'.op = "newdata"
        /\ resp'.body \in {"duplicate", "accepted", "Store Error"}
        /\ resp'.req.getOk /\ resp'.req.putOk)
       => LET key == usageReportKey(clock, resp'.req.uid)
          IN IF key \in DOMAIN store
             THEN resp'.body = "duplicate" /\ store' = store
             ELSE /\ resp'.body = "accepted"
                  /\ DOMAIN store' = (DOMAIN store) \cup {key}
                  /\ Unmarshal(store'[key], ZeroReport).val.uniqueID
                        = resp'.req.uid
                  /\ \A k \in DOMAIN store : store'[k] = store[k]]_vars

C1_Witness ==
    /\ resp.op = "newdata" /\ resp.body = "duplicate"
    /\ resp.req.getOk /\ resp.req.putOk
    /\ usageReportKey(clock, resp.req.uid) \in DOMAIN store

\* ------------------------------------------------------------------- C2
\* the store holds valid aggregates only, none newer than yesterday's, and
\* yesterday's is among them
ValidHistory ==
    /\ aggregatedReportKey(Yesterday) \in DOMAIN store
    /\ \A k \in AggregateKeys(store) :
         LET a == Decoded(store, k)
         IN a.nodes > 0 /\ Valid(a.blockStats) /\ a.date.day <= Yesterday.day

\* C2: a successful refresh of a Cold cache over a store of valid aggregates
\* for N dates, the newest yesterday's, leaves N data rows in each of the
\* summary, performance and block-stats tables.
C2_ColdRefreshFillsTables ==
    [][(/\ IsZero(cache.cachedLatestReport.date)
        /\ ValidHistory
        /\ resp'.refresh = "ok")
       => LET N == Cardinality(AggregateKeys(store))
          IN /\ DataRows(MarshalJSON(cache'.cachedSummary)) = N
             /\ DataRows(cache'.cachedPerformance) = N
             /\ DataRows(cache'.cachedBlockstats) = N]_vars

\* ------------------------------------------------------------------- C3
\* the stored aggregates dated up to day, oldest first
Upto(st, day) ==
    LET days == {Decoded(st, k).date.day : k \in AggregateKeys(st)}
        kept == SortSeq(SetToSeq({d \in days : d <= day}), LAMBDA a, b : a < b)
    IN [i \in 1..Len(kept) |->
          Decoded(st, aggregatedReportKey(Midnight(kept[i])))]

\* the serialized tables of a full rebuild over reports
Rebuilt(reports) == {Tables(c) : c \in cacheGraphData(NewCache, reports)}

\* C3: in a run where the aggregates arrive one per day and a refresh follows
\* each arrival, the tables after each refresh are those of a full rebuild
\* over the aggregates stored.  One step of such a run: the tables are those
\* of the aggregates up to the cached latest, yesterday's aggregate is the
\* one stored aggregate newer than that, and a refresh succeeds.
C3_IncrementalEqualsRebuild ==
    [][(/\ resp'.refresh = "ok"
        /\ Tables(cache) \in Rebuilt(Upto(store, cache.cachedLatestReport.date.day))
        /\ {Decoded(store, k).date.day : k \in AggregateKeys(store)}
              \ (0..cache.cachedLatestReport.date.day) = {Yesterday.day})
       => Tables(cache') \in Rebuilt(Upto(store, Yesterday.day))]_vars

C5_MissingYesterdayStampsTime ==
    [][(/\ resp'.refresh # "none"
        /\ resp'.req.getOk
        /\ aggregatedReportKey(Yesterday) \notin DOMAIN store)
       => /\ resp'.refresh = "ok"
          /\ cache'.cachedLatestReport = cache.cachedLatestReport
          /\ Tables(cache') = Tables(cache)
          /\ cache'.cacheTime = clock]_vars

\* ------------------------------------------------------------------- C6
\* C6: a refresh that fails leaves the cached latest aggregate and the
\* summary, performance and block-stats tables as they were.
C6_FailedRefreshKeepsSnapshot ==
    [][resp'.refresh = "failed"
       => /\ cache'.cachedLatestReport = cache.cachedLatestReport
          /\ cache'.cachedSummary = cache.cachedSummary
          /\ cache'.cachedPerformance = cache.cachedPerformance
          /\ cache'.cachedBlockstats = cache.cachedBlockstats]_vars

\* a refresh of a Warm cache has failed
C6_Witness ==
    /\ resp.refresh = "failed"
    /\ ~IsZero(cache.cachedLatestReport.date)

\* ------------------------------------------------------------------- C7
\* C7: a read whose refresh failed still answers, with the data of the last
\* good snapshot (here: of a Warm cache).
C7_ReadSurvivesFailedRefresh ==
    (/\ resp.op \in ReadOps /\ resp.refresh = "failed"
     /\ ~IsZero(cache.cachedLatestReport.date))
        => resp.code = 200

\* ------------------------------------------------------------------- C8
\* C8: a read refreshes exactly when it finds now - cacheTime > maxCacheTime
\* (a snapshot never refreshed counts as stale), and every read answered
\* with data leaves a snapshot refreshed no longer than maxCacheTime ago.
C8_ReadsBoundStaleness ==
    [][(resp'.op \in ReadOps /\ resp'.code # 404)
       => /\ (resp'.refresh # "none")
               <=> (\/ cache.cacheTime = ZeroTime
                    \/ clock.min - cache.cacheTime.min > maxCacheTime)
          /\ resp'.code = 200
               => /\ cache'.cacheTime # ZeroTime
                  /\ clock'.min - cache'.cacheTime.min <= maxCacheTime]_vars

\* a read found the snapshot older than maxCacheTime, refreshed and answered
C8_Witness ==
    /\ resp.op \in ReadOps /\ resp.code = 200 /\ resp.refresh = "ok"
    /\ clock.min > maxCacheTime
    /\ cache.cacheTime = clock

\* ------------------------------------------------------------------- C9
\* C9: summaryTable(threshold) changes nothing in the summary state.
C9_SummaryTableIsReadOnly ==
    [][resp'.op = "summary" => cache'.cachedSummary = cache.cachedSummary]_vars

\* ------------------------------------------------------------------ C10
\* the most users of version v on one day, over the aggregates folded
MaxCount(v) ==
    LET counts == {Lookup(Decoded(store, k).versionCount, v, 0) :
                     k \in AggregateKeys(store)}
    IN IF counts = {} THEN 0 ELSE CHOOSE m \in counts : \A n \in counts : n <= m

\* C10: the version columns of the summary table served for threshold t are
\* exactly the versions whose largest single-day count is greater than t.
C10_ColumnsAreVersionsAboveThreshold ==
    (resp.op = "summary" /\ resp.code = 200)
        => Range(Tail(resp.body[1]))
             = {v \in Versions : MaxCount(v) > resp.req.min}

\* ------------------------------------------------------------------ C11
\* C11: the serialized summary table after a fold is the same for every
\* order in which setCount ranges over the aggregate's version-count map.
C11_SerializationIgnoresMapOrder ==
    [][resp'.op = "fold"
       => LET rep == cache'.cachedLatestReport
              after == setCountAny(cache.cachedSummary, DateOnly(rep.date),
                                   rep.versionCount)
          IN \A s1, s2 \in after : MarshalJSON(s1) = MarshalJSON(s2)]_vars

\* ------------------------------------------------------------------ C12
\* the aggregates folded so far, oldest first
Folded == Upto(store, cache.cachedLatestReport.date.day)

\* an aggregate of a day with reporting nodes and no negative block statistic
Countable(a) == a.nodes > 0 /\ \A f \in DOMAIN a.blockStats : a.blockStats[f] >= 0

\* C12: the block-stats table holds no row for a folded aggregate with
\* nodes <= 0 or with a negative block statistic, and exactly one row, of
\* its date and its number of nodes, for every other folded aggregate.
C12_BlockStatsDropsBadDays ==
    LET kept == SelectSeq(Folded, Countable)
        rows == Tail(cache.cachedBlockstats)
    IN /\ Len(rows) = Len(kept)
       /\ \A i \in 1..Len(rows) :
            /\ rows[i][1] = DateOnly(kept[i].date)
            /\ rows[i][2] = kept[i].nodes

\* two aggregates are folded, one of them dropped from the block-stats table
C12_Witness ==
    /\ Len(Folded) = 2
    /\ Len(SelectSeq(Folded, Countable)) = 1
    /\ DataRows(cache.cachedBlockstats) = 1

\* ------------------------------------------------------------------ C13
\* the usage reports stored under the keys of the day of when
StoredOn(st, when) ==
    {Unmarshal(st[k], ZeroReport).val :
       k \in Matching(st, usageReportKey(when, ""))}

\* C13: with the backend answering, ListUsageReportsForDate(d) returns the
\* reports stored under day d's keys, each once and each with the field
\* values it was stored with, and none of another day.
C13_ListReturnsWhatWasStored ==
    [][(resp'.op = "list" /\ resp'.req.getOk)
       => LET out == resp'.body.out
              stored == StoredOn(store, resp'.body.when)
          IN /\ ~out.err
             /\ Len(out.res) = Cardinality(stored)
             /\ Range(out.res) = stored]_vars

\* ------------------------------------------------------------------ C14
UsageKeys(st) == Matching(st, <<USAGE_PREFIX, "~">>)

\* C14: every stored usage report has as its date the day in its key, the
\* UTC day of its receipt, whatever date the payload carried.
C14_StoredDateIsReceiptDay ==
    \A k \in UsageKeys(store) :
        Unmarshal(store[k], ZeroReport).val.date = k[3]

\* ------------------------------------------------------------------ C15
\* C15: a successful refresh of a Warm cache makes the fetched aggregate the
\* cached latest and stamps the time; it folds that one aggregate into the
\* tables when its date is after the date of the latest cached before, and
\* leaves the tables as they are when it is not.
C15_WarmRefreshFoldsNewerOnly ==
    [][(/\ resp'.refresh = "ok"
        /\ ~IsZero(cache.cachedLatestReport.date))
       => LET fetched == Decoded(store, aggregatedReportKey(Yesterday))
          IN /\ cache'.cachedLatestReport = fetched
             /\ cache'.cacheTime = clock
             /\ IF After(fetched.date, cache.cachedLatestReport.date)
                THEN Tables(cache') \in {Tables(c) : c \in cacheGraphData(cache, <<fetched>>)}
                ELSE Tables(cache') = Tables(cache)]_vars

\* ------------------------------------------------------------------ C16
\* the data rows of table are in strictly increasing order of date
Increasing(table) ==
    \A i \in 2..(Len(table) - 1) : table[i][1] < table[i + 1][1]

\* C16: after a full rebuild the data rows of the performance table and of
\* the block-stats table are in strictly increasing date order, whatever the
\* order in which Iterate yields the blobs.
C16_RebuildIsChronological ==
    (resp.op = "rebuild" /\ resp.refresh = "ok")
        => /\ Increasing(cache.cachedPerformance)
           /\ Increasing(cache.cachedBlockstats)

\* ------------------------------------------------------------------ C17
\* C17: no two known versions share a column index, and a version keeps
\* the index it has from one step to the next.
C17_ColumnIndexIsStable ==
    [][LET old == cache.cachedSummary.versions
           new == cache'.cachedSummary.versions
       IN /\ \A v, w \in DOMAIN new : v # w => new[v] # new[w]
          /\ \A v \in (DOMAIN old) \cap (DOMAIN new) : new[v] = old[v]]_vars

\* ------------------------------------------------------------------ C18
\* goroutine p is between its Lock and its Unlock
Inside(p) == threads[p].at \notin {"idle", "lock"}

\* a refresh has assigned the cached latest and not yet stamped the time
MidRefresh == \E q \in Procs : threads[q].at \in {"fold", "stamp"}

\* C18: the refresher and the read handlers hold cacheMut from before their
\* first access to the snapshot until after their last, so at most one of
\* them is inside at a time, and when a handler writes its answer no
\* refresh is between updating the latest and stamping the time.
C18_OneInsideTheSnapshot ==
    /\ \A p, q \in Procs : (Inside(p) /\ Inside(q)) => p = q
    /\ \A p \in Procs : Inside(p) => cacheMut = p
    /\ (\E p \in Procs : threads[p].at = "write") => ~MidRefresh

\* the refresher is in the middle of a refresh while both handlers wait
\* for the mutex
C18_Witness ==
    /\ threads["refresher"].at = "fold"
    /\ threads["h1"].at = "lock"
    /\ threads["h2"].at = "lock"
    /\ cache.cacheTime # clock

\* ------------------------------------------------------------------ C19
\* C19: the existence check and the write of PutUsageReport are separate
\* steps, so two calls for one (day, uniqueID) can both pass the check and
\* both succeed; the key then holds one blob, that of the call that wrote
\* last.  Every successful write leaves under its key exactly the report of
\* the writing call, whatever was there, and touches no other key.
C19_LastWriteWins ==
    [][\A p \in Readers :
         (threads[p].at = "put" /\ threads'[p].at = "accepted")
            => LET key == usageReportKey(clock, threads[p].rep.uniqueID)
               IN /\ store'[key] = MarshalReport(threads[p].rep)
                  /\ DOMAIN store' = (DOMAIN store) \cup {key}
                  /\ \A k \in (DOMAIN store) \ {key} : store'[k] = store[k]]_vars

\* both calls, for one key and with different reports, have returned
\* success; h2 wrote last and the key holds h2's report, not h1's
C19_Witness ==
    /\ threads["h1"].at = "accepted" /\ threads["h2"].at = "accepted"
    /\ threads["h1"].rep.uniqueID = threads["h2"].rep.uniqueID
    /\ threads["h1"].rep # threads["h2"].rep
    /\ resp.op = "put" /\ resp.body = "h2"
    /\ store[usageReportKey(clock, threads["h2"].rep.uniqueID)]
          = MarshalReport(threads["h2"].rep)

\* ------------------------------------------------------------------ C20
\* C20: a usage report in the store stays as it is under every later call,
\* made one after the other, the calls during which the backend's Get fails
\* included.
C20_StoredReportIsNeverReplaced ==
    [][\A k \in UsageKeys(store) :
         k \in DOMAIN store' /\ store'[k] = store[k]]_vars

\* ------------------------------------------------------------------ C21
\* a step in which the backend's Get fails
BackendFails == \E p \in Procs : LookupLatest(p, FALSE)

HasYesterday == aggregatedReportKey(Yesterday) \in DOMAIN store

\* the refresher has just refreshed: the cached latest is yesterday's
\* aggregate and the refresh time is now
RefresherCaughtUp ==
    /\ resp.op = "refresher" /\ resp.refresh = "ok"
    /\ HasYesterday
    /\ cache.cachedLatestReport = Decoded(store, aggregatedReportKey(Yesterday))
    /\ cache.cacheTime = clock

\* C21: a failed background refresh does not stop the refresher.  If from
\* some point on the backend's Get does not fail and the store holds
\* yesterday's aggregate, the refresher again and again leaves the cached
\* latest equal to that aggregate and the refresh time at the time of the
\* refresh.
C21_RefresherKeepsRetrying ==
    (<>[][~BackendFails]_vars /\ <>[]HasYesterday) => []<>RefresherCaughtUp

\* the refresher's last refresh failed and it is refreshing again, with
\* yesterday's aggregate now in the store
C21_Witness ==
    /\ resp.op = "refresher" /\ resp.refresh = "failed"
    /\ threads["refresher"].at = "lookup"
    /\ HasYesterday

====
